---- MODULE Spec2Model ----
(***************************************************************************)
(* logsalot: a moderation-logging bot.  The model covers the per-guild    *)
(* log-channel table (commands.rs: `channels list`, `channels set`,       *)
(* LogType::fetch_channel), the event classifier make_embed and the       *)
(* delivery loop handle_logging_events (logging.rs).                      *)
(*                                                                         *)
(* Every await of the source is a step of its own, so commands and the    *)
(* event pipeline interleave at the suspension points.                    *)
(***************************************************************************)
EXTENDS Integers, Sequences, FiniteSets, TLC

\* ------------------------------------------------------------------ bounds
\* longest sequence handed to asymmetric_diff on its own
MaxDiffLen == 2
\* largest count handed to pluralize on its own
MaxCount == 3
\* longest attachment list of a message
MaxAtt == 2
\* number of slash commands issued in one behaviour of Spec
MaxCommands == 3

Guilds == {1, 2}
Channels == {7, 42}
Urls == {"u1", "u2"}
Contents == {"", "hello"}
MessageIds == {100, 101}
Ids == Guilds \cup Channels

\* ------------------------------------------------------------------ Option<T>
None == [some |-> FALSE]
Some(x) == [some |-> TRUE, val |-> x]
Opt(S) == {None} \cup {Some(x) : x \in S}

\* ------------------------------------------------------------------ ids as text
\* Display of a GuildId / ChannelId: the decimal text of the number.
to_string(id) == ToString(id)

\* FromStr of an id: the number whose decimal text is s, an error (None after
\* .ok()) for any other text, the empty text included.
from_str(s) ==
  IF \E n \in Ids : ToString(n) = s
  THEN Some(CHOOSE n \in Ids : ToString(n) = s)
  ELSE None

\* ------------------------------------------------------------------ LogType
LogTypes == {"Member", "Chat", "Server"}

as_column_name(log_type) ==
  CASE log_type = "Member" -> "member_logs"
    [] log_type = "Chat" -> "chat_logs"
    [] log_type = "Server" -> "server_logs"

LogType_to_string(log_type) ==
  CASE log_type = "Member" -> "Member Logs"
    [] log_type = "Chat" -> "Chat Logs"
    [] log_type = "Server" -> "Server Logs"

\* ------------------------------------------------------------------ log_channels table
\* A row of log_channels; the three channel columns are nullable TEXT.
LogChannels_new(guild_id) ==
  [guild_id |-> to_string(guild_id), member_logs |-> None,
   chat_logs |-> None, server_logs |-> None]

\* SELECT ... WHERE guild_id = ? with fetch_optional: a matching row, if any.
select_row(table, guild_id_string) ==
  LET rows == {r \in table : r.guild_id = guild_id_string}
  IN IF rows = {} THEN None ELSE Some(CHOOSE r \in rows : TRUE)

\* The unique key of log_channels: a row with this guild_id is in the way of
\* another one.
guild_id_conflict(table, guild_id_string) ==
  \E r \in table : r.guild_id = guild_id_string

\* insert_default as INSERT OR REPLACE: the row in the way is replaced.
insert_default_or_replace(table, guild_id_string) ==
  {r \in table : r.guild_id # guild_id_string}
    \cup {[guild_id |-> guild_id_string, member_logs |-> None,
           chat_logs |-> None, server_logs |-> None]}

\* insert_default that never meets a conflict: the row is added as it is.
insert_default_unchecked(table, guild_id_string) ==
  table \cup {[guild_id |-> guild_id_string, member_logs |-> None,
               chat_logs |-> None, server_logs |-> None]}

\* INSERT INTO log_channels (guild_id) VALUES (?) ON CONFLICT DO NOTHING
insert_default(table, guild_id_string) ==
  IF guild_id_conflict(table, guild_id_string)
  THEN table
  ELSE table \cup {[guild_id |-> guild_id_string, member_logs |-> None,
                   chat_logs |-> None, server_logs |-> None]}

\* update_column without its WHERE clause: every row is updated.
update_column_every_row(table, column_name, value, guild_id_string) ==
  {[r EXCEPT ![column_name] = value] : r \in table}

\* UPDATE log_channels SET <column> = ? WHERE guild_id = ?
update_column(table, column_name, value, guild_id_string) ==
  {IF r.guild_id = guild_id_string THEN [r EXCEPT ![column_name] = value] ELSE r
     : r \in table}

\* row.get::<&str>(column): the SQLite driver reads a NULL text as the empty text.
row_get_str(row, column_name) ==
  IF row[column_name].some THEN row[column_name].val ELSE ""

\* fetch_channel with the WHERE clause lost: any guild's row answers.
fetch_channel_any_guild(rows, log_type, guild_id) ==
  LET column_name == as_column_name(log_type)
  IN IF rows = {} THEN None
     ELSE from_str(row_get_str(CHOOSE r \in rows : TRUE, column_name))

fetch_channel(rows, log_type, guild_id) ==
  LET column_name == as_column_name(log_type)
      row == select_row(rows, to_string(guild_id))
  IN IF ~row.some THEN None
     ELSE from_str(row_get_str(row.val, column_name))

\* ------------------------------------------------------------------ logging.rs helpers
\* The two HashSets of AsymmetricDiff, computed as the source does: collect,
\* then remove every element of the other sequence.
RECURSIVE remove_all(_, _, _)
remove_all(set, items, i) ==
  IF i > Len(items) THEN set
  ELSE remove_all(set \ {items[i]}, items, i + 1)

collect(items) == {items[i] : i \in 1..Len(items)}

\* asymmetric_diff without the removal loop over `to`.
asymmetric_diff_removed_unfiltered(from, to) ==
  [removed |-> collect(from),
   added |-> remove_all(collect(to), from, 1)]

\* asymmetric_diff with its two results exchanged.
asymmetric_diff_exchanged(from, to) ==
  [removed |-> remove_all(collect(to), from, 1),
   added |-> remove_all(collect(from), to, 1)]

asymmetric_diff(from, to) ==
  [removed |-> remove_all(collect(from), to, 1),
   added |-> remove_all(collect(to), from, 1)]

\* pluralize without its singular arm.
pluralize_always_plural(singular, plural, count) == plural

\* pluralize with the arm `0 | 1 => singular`.
pluralize_singular_up_to_one(singular, plural, count) ==
  IF count <= 1 THEN singular ELSE plural

pluralize(singular, plural, count) ==
  IF count = 1 THEN singular ELSE plural


\* ------------------------------------------------------------------ gateway events
\* What make_embed reads of a FullEvent.  `message` / `old_if_available` /
\* `member_data_if_available` are None on a cache miss.
AttLists == UNION {[1..k -> Urls] : k \in 0..MaxAtt}

CachedMessages ==
  [author_bot : BOOLEAN, content : Contents, attachments : AttLists]

MessageDeleteEvents ==
  [kind : {"MessageDelete"}, guild_id : Opt(Guilds), message : Opt(CachedMessages)]

OldMessages ==
  [author_bot : BOOLEAN, guild_id : Opt(Guilds), content : Contents,
   attachments : AttLists]

NewMessages == [content : Contents, attachments : AttLists]

MessageUpdateEvents ==
  [kind : {"MessageUpdate"}, old_if_available : Opt(OldMessages),
   new : Opt(NewMessages)]

GuildMemberAdditionEvents ==
  [kind : {"GuildMemberAddition"},
   new_member : [guild_id : Guilds, joined_at : Opt({"t0"})]]

GuildMemberRemovalEvents ==
  [kind : {"GuildMemberRemoval"}, guild_id : Guilds, user : {"user"},
   member_data_if_available : Opt([joined_at : Opt({"t0"})])]

GuildMemberUpdateEvents ==
  [kind : {"GuildMemberUpdate"}, old_if_available : Opt({"member"})]

OtherEvents == [kind : {"Other"}]

Events ==
  MessageDeleteEvents \cup MessageUpdateEvents \cup GuildMemberAdditionEvents
    \cup GuildMemberRemovalEvents \cup GuildMemberUpdateEvents \cup OtherEvents

\* The orders in which a HashSet of urls may be iterated: one order of Urls,
\* restricted to the set.
RECURSIVE Perms(_)
Perms(S) ==
  IF S = {} THEN {<<>>}
  ELSE UNION {{<<x>> \o p : p \in Perms(S \ {x})} : x \in S}

hash_iter(set, order) == SelectSeq(order, LAMBDA u : u \in set)

\* ------------------------------------------------------------------ make_embed
\* Outcomes of make_embed: Some((message, log_type, guild_id, followups)), None,
\* or a panic of the task (unwrap on a failed fetch).  fetch_failed records
\* whether a CreateAttachment::url call failed on the way.
EmbedNone(failed) == [tag |-> "None", fetch_failed |-> failed]
EmbedPanic == [tag |-> "Panic", fetch_failed |-> TRUE]
EmbedSome(message, log_type, guild_id, followups) ==
  [tag |-> "Some", fetch_failed |-> FALSE, message |-> message,
   log_type |-> log_type, guild_id |-> guild_id, followups |-> followups]

Field(name, value) == [name |-> name, value |-> value]

\* The bot check left out.
author_never_suppressed(message) == FALSE

\* if message.author.bot { return None; }
author_is_suppressed(message) == message.author_bot

\* The content shown as it is, without the placeholder for an empty one.
message_content_verbatim(content) == content

\* The text of the "Content" field of a deletion.
message_content_of(content) ==
  IF content # "" THEN content ELSE "None"

\* `down` is the set of urls whose bytes cannot be fetched.
make_embed_MessageDelete(event, down) ==
  IF ~event.guild_id.some THEN EmbedNone(FALSE)
  ELSE IF ~event.message.some THEN EmbedNone(FALSE)
  ELSE
    LET guild_id == event.guild_id.val
        message == event.message.val
        message_content == message_content_of(message.content)
        n == Len(message.attachments)
        base_fields ==
          <<Field("Content", message_content), Field("Timestamp", "<t:now>")>>
        fields ==
          IF n # 0
          THEN Append(base_fields, Field("No. Attachments", ToString(n)))
          ELSE base_fields
        followups ==
          IF n # 0
          THEN <<[content |-> "", files |-> message.attachments]>>
          ELSE <<>>
    IN IF author_is_suppressed(message) THEN EmbedNone(FALSE)
       ELSE IF \E i \in 1..n : message.attachments[i] \in down THEN EmbedPanic
       ELSE EmbedSome([colour |-> "RED", description |-> "deleted",
                       fields |-> fields],
                      "Chat", guild_id, Some(followups))

make_embed_MessageUpdate(event, down, order) ==
  IF ~event.old_if_available.some THEN EmbedNone(FALSE)
  ELSE IF author_is_suppressed(event.old_if_available.val) THEN EmbedNone(FALSE)
  ELSE IF ~event.old_if_available.val.guild_id.some THEN EmbedNone(FALSE)
  ELSE IF ~event.new.some THEN EmbedNone(FALSE)
  ELSE
    LET old == event.old_if_available.val
        new == event.new.val
        guild_id == old.guild_id.val
        content_changed == old.content # new.content
        description ==
          IF content_changed THEN "updated"
          ELSE "updated" \o " Message content hasn't changed. Check followup message(s) for attachment changes."
        content_fields ==
          IF content_changed
          THEN <<Field("New", new.content), Field("Previous", old.content)>>
          ELSE <<>>
        attachments_could_have_changed ==
          old.attachments # <<>> \/ new.attachments # <<>>
        difference == asymmetric_diff(old.attachments, new.attachments)
        attachment_fields ==
          IF attachments_could_have_changed
          THEN <<Field("Attachments",
                       "**Removed**: " \o ToString(Cardinality(difference.removed))
                         \o " | **Added**: "
                         \o ToString(Cardinality(difference.added)))>>
          ELSE <<>>
        fields ==
          content_fields \o <<Field("Timestamp", "<t:now>")>> \o attachment_fields
        added_attachments ==
          [content |-> "Added "
                         \o pluralize("attachment", "attachments",
                                      Cardinality(difference.added))
                         \o ":",
           files |-> hash_iter(difference.added, order)]
        removed_attachments ==
          [content |-> "Removed "
                         \o pluralize("attachment", "attachments",
                                      Cardinality(difference.removed))
                         \o ":",
           files |-> hash_iter(difference.removed, order)]
        followups ==
          (IF attachments_could_have_changed /\ difference.added # {}
           THEN <<added_attachments>> ELSE <<>>)
            \o (IF attachments_could_have_changed /\ difference.removed # {}
                THEN <<removed_attachments>> ELSE <<>>)
    IN IF attachments_could_have_changed
            /\ (difference.added \cup difference.removed) \cap down # {}
       THEN EmbedNone(TRUE)
       ELSE IF content_changed \/ attachments_could_have_changed
       THEN EmbedSome([colour |-> "FADED_PURPLE", description |-> description,
                       fields |-> fields],
                      "Chat", guild_id, Some(followups))
       ELSE EmbedNone(FALSE)

make_embed_GuildMemberAddition(event) ==
  LET member == event.new_member
  IN IF ~member.joined_at.some THEN EmbedNone(FALSE)
     ELSE EmbedSome([colour |-> "DARK_GREEN", description |-> "joined",
                     fields |-> <<Field("Joined At",
                                        "<t:" \o member.joined_at.val \o ":R>"),
                                  Field("Created At", "<t:created:R>")>>],
                    "Member", member.guild_id, None)

\* make_embed_GuildMemberRemoval going on without the cached member.
make_embed_GuildMemberRemoval_uncached(event) ==
  LET joined ==
        IF event.member_data_if_available.some
             /\ event.member_data_if_available.val.joined_at.some
        THEN event.member_data_if_available.val.joined_at.val
        ELSE "unknown"
  IN EmbedSome([colour |-> "DARK_RED", description |-> "left",
                fields |-> <<Field("Joined At", "<t:" \o joined \o ":R>"),
                             Field("Created At", "<t:created:R>"),
                             Field("Left At", "<t:now:R>")>>],
               "Member", event.guild_id, None)

make_embed_GuildMemberRemoval(event) ==
  IF ~event.member_data_if_available.some THEN EmbedNone(FALSE)
  ELSE IF ~event.member_data_if_available.val.joined_at.some THEN EmbedNone(FALSE)
  ELSE EmbedSome([colour |-> "DARK_RED", description |-> "left",
                  fields |-> <<Field("Joined At",
                                     "<t:" \o event.member_data_if_available.val.joined_at.val
                                       \o ":R>"),
                               Field("Created At", "<t:created:R>"),
                               Field("Left At", "<t:now:R>")>>],
                 "Member", event.guild_id, None)

\* make_embed_GuildMemberUpdate reporting the update as a Server draft.
make_embed_GuildMemberUpdate_as_server(event) ==
  EmbedSome([colour |-> "BLUE", description |-> "updated",
             fields |-> <<Field("Timestamp", "<t:now>")>>],
            "Server", 2, None)

make_embed_GuildMemberUpdate(event) == EmbedNone(FALSE)

make_embed(event, down, order) ==
  CASE event.kind = "MessageDelete" -> make_embed_MessageDelete(event, down)
    [] event.kind = "MessageUpdate" -> make_embed_MessageUpdate(event, down, order)
    [] event.kind = "GuildMemberAddition" -> make_embed_GuildMemberAddition(event)
    [] event.kind = "GuildMemberRemoval" -> make_embed_GuildMemberRemoval(event)
    [] event.kind = "GuildMemberUpdate" -> make_embed_GuildMemberUpdate(event)
    [] OTHER -> EmbedNone(FALSE)


\* ------------------------------------------------------------------ state
VARIABLES
  pool,          \* the rows of the log_channels table
  reply,         \* the last reply a command sent to its invoker
  list_pending,  \* per guild: `list` commands suspended between SELECT and INSERT
  n_commands,    \* commands issued so far
  n_inserted,    \* per guild: executions of insert_default that returned
  task,          \* the pipeline invocation of the current gateway event
  calc           \* a call of a pure helper: its arguments and, once run, its value

vars == <<pool, reply, list_pending, n_commands, n_inserted, task, calc>>

Pending == [tag |-> "Pending"]
Ok == [tag |-> "Ok"]
Panicked == [tag |-> "Panic"]
SendError == [tag |-> "Err", error |-> "SendMessage"]
NoLogChannelSet(log_type, guild_id) ==
  [tag |-> "Err", error |-> "NoLogChannelSet", log_type |-> log_type,
   guild_id |-> guild_id]

NoReply == [cmd |-> "none"]
\* A command that returned Err(sqlx::Error) to the framework, and one whose
\* task panicked: neither replies.
CommandError(command, guild) ==
  [cmd |-> "error", command |-> command, guild_id |-> guild, error |-> "sqlx"]
CommandPanic(command, guild) ==
  [cmd |-> "panic", command |-> command, guild_id |-> guild]
NoLookup == [done |-> FALSE]
NoCalc == [fn |-> "none"]

IdleTask ==
  [pc |-> "idle", event |-> [kind |-> "Other"], payload |-> EmbedNone(FALSE),
   channel |-> None, message |-> None, next |-> 1, sent |-> <<>>,
   result |-> Pending, lookup |-> NoLookup]

\* What the table holds for (guild, log_type): "norow", "null" or "set".
column_state(rows, log_type, guild_id) ==
  LET mine == {r \in rows : r.guild_id = ToString(guild_id)}
  IN IF mine = {} THEN "norow"
     ELSE IF \E r \in mine : r[as_column_name(log_type)].some THEN "set"
     ELSE "null"

\* ------------------------------------------------------------------ commands.rs: set
set_reply_content(log_type, value) ==
  IF value.some
  THEN LogType_to_string(log_type) \o " will now be sent to <#" \o value.val \o ">"
  ELSE "Unset " \o LogType_to_string(log_type)

\* `io_ok` is whether the store carries the statement out; .execute(pool)
\* .await? returns its error to the framework.
set(guild, log_type, channel, io_ok) ==
  LET guild_id == to_string(guild)
      value == IF channel.some THEN Some(to_string(channel.val)) ELSE None
  IN /\ n_commands < MaxCommands
     /\ n_commands' = n_commands + 1
     /\ IF io_ok
        THEN /\ pool' = update_column(pool, as_column_name(log_type), value,
                                      guild_id)
             /\ reply' = [cmd |-> "set", guild_id |-> guild,
                          log_type |-> log_type, channel |-> channel,
                          content |-> set_reply_content(log_type, value)]
        ELSE /\ pool' = pool
             /\ reply' = CommandError("set", guild)
     /\ UNCHANGED <<list_pending, n_inserted, task, calc>>

\* ------------------------------------------------------------------ commands.rs: list
\* LogChannels::member_logs / chat_logs / server_logs, then the text shown.
column_shown(row, column_name) ==
  LET id == IF row[column_name].some THEN from_str(row[column_name].val) ELSE None
  IN IF id.some THEN to_string(id.val) ELSE "None"

list_reply(guild, row) ==
  [cmd |-> "list", guild_id |-> guild,
   member_logs |-> column_shown(row, "member_logs"),
   chat_logs |-> column_shown(row, "chat_logs"),
   server_logs |-> column_shown(row, "server_logs")]

\* SELECT * FROM log_channels WHERE guild_id = ?; a found row is shown at once,
\* otherwise the command goes on to insert_default.  fetch_optional(pool)
\* .await? returns the store's error to the framework.
list_select(guild, io_ok) ==
  LET row == select_row(pool, to_string(guild))
  IN /\ n_commands < MaxCommands
     /\ n_commands' = n_commands + 1
     /\ IF ~io_ok
        THEN /\ reply' = CommandError("list", guild)
             /\ UNCHANGED list_pending
        ELSE IF row.some
        THEN /\ reply' = list_reply(guild, row.val)
             /\ UNCHANGED list_pending
        ELSE /\ list_pending' = [list_pending EXCEPT ![guild] = @ + 1]
             /\ UNCHANGED reply
     /\ UNCHANGED <<pool, n_inserted, task, calc>>

\* LogChannels::insert_default(pool, guild_id_string).await, then the reply
\* built from LogChannels::new(guild_id).  insert_default unwraps the store's
\* result: an error panics the command's task.
list_insert(guild, io_ok) ==
  /\ list_pending[guild] > 0
  /\ list_pending' = [list_pending EXCEPT ![guild] = @ - 1]
  /\ IF io_ok
     THEN /\ pool' = insert_default(pool, to_string(guild))
          /\ n_inserted' = [n_inserted EXCEPT ![guild] = @ + 1]
          /\ reply' = list_reply(guild, LogChannels_new(guild))
     ELSE /\ pool' = pool
          /\ n_inserted' = n_inserted
          /\ reply' = CommandPanic("list", guild)
  /\ UNCHANGED <<n_commands, task, calc>>

\* ------------------------------------------------------------------ logging.rs: handle_logging_events
\* make_embed(...).await: the event is classified; None ends the invocation
\* with Ok(()), a panic ends the task.
handle_make_embed(event, down, order) ==
  LET payload == make_embed(event, down, order)
  IN /\ task.pc = "idle"
     /\ task' =
          [IdleTask EXCEPT
             !.event = event,
             !.payload = payload,
             !.pc = IF payload.tag = "Some" THEN "fetch_channel" ELSE "done",
             !.result = CASE payload.tag = "Some" -> Pending
                          [] payload.tag = "None" -> Ok
                          [] payload.tag = "Panic" -> Panicked]
     /\ UNCHANGED <<pool, reply, list_pending, n_commands, n_inserted, calc>>

\* log_type.fetch_channel(...).await.ok_or(NoLogChannelSet { .. })?  `io_ok`
\* is whether the store answers the SELECT; fetch_channel turns the store's
\* error into None with .ok()?.
handle_fetch_channel(io_ok) ==
  LET log_type == task.payload.log_type
      guild_id == task.payload.guild_id
      channel == IF io_ok THEN fetch_channel(pool, log_type, guild_id) ELSE None
      last_set == IF /\ reply.cmd = "set"
                        /\ reply.guild_id = guild_id
                        /\ reply.log_type = log_type
                     THEN reply ELSE NoReply
      lookup == [done |-> TRUE,
                 column |-> column_state(pool, log_type, guild_id),
                 reply |-> last_set, io_ok |-> io_ok]
  IN /\ task.pc = "fetch_channel"
     /\ task' =
          IF channel.some
          THEN [task EXCEPT !.pc = "send_primary", !.channel = channel,
                            !.lookup = lookup]
          ELSE [task EXCEPT !.pc = "done", !.lookup = lookup,
                            !.result = NoLogChannelSet(log_type, guild_id)]
     /\ UNCHANGED <<pool, reply, list_pending, n_commands, n_inserted, calc>>

\* What the table names as the invocation's destination at this moment; kept
\* with every message sent, next to the channel it went to.
configured_now(t) == fetch_channel(pool, t.payload.log_type, t.payload.guild_id)

\* channel.send_message(ctx, message).await?  `id` is the identifier the
\* platform gives the message.
primary_turn(t, ok, id) ==
  LET sent == [channel |-> t.channel.val, payload |-> t.payload.message,
               reference |-> None, ok |-> ok, configured |-> configured_now(t)]
      followups == t.payload.followups
  IN IF ~ok
     THEN [t EXCEPT !.pc = "done", !.result = SendError, !.sent = Append(@, sent)]
     ELSE IF followups.some /\ followups.val # <<>>
     THEN [t EXCEPT !.pc = "send_followups", !.message = Some(id),
                    !.sent = Append(@, sent)]
     ELSE [t EXCEPT !.pc = "done", !.result = Ok, !.message = Some(id),
                    !.sent = Append(@, sent)]

handle_send_primary(ok, id) ==
  /\ task.pc = "send_primary"
  /\ task' = primary_turn(task, ok, id)
  /\ UNCHANGED <<pool, reply, list_pending, n_commands, n_inserted, calc>>

\* followup_turn walking the followups from the last to the first.
followup_turn_reversed(t, ok) ==
  LET followups == t.payload.followups.val
      sent == [channel |-> t.channel.val,
               payload |-> followups[Len(followups) - t.next + 1],
               reference |-> t.message, ok |-> ok,
               configured |-> configured_now(t)]
  IN IF ~ok
     THEN [t EXCEPT !.pc = "done", !.result = SendError, !.sent = Append(@, sent)]
     ELSE IF t.next < Len(followups)
     THEN [t EXCEPT !.next = @ + 1, !.sent = Append(@, sent)]
     ELSE [t EXCEPT !.pc = "done", !.result = Ok, !.next = @ + 1,
                    !.sent = Append(@, sent)]

\* followup_turn with the result of the send dropped instead of returned.
followup_turn_no_abort(t, ok) ==
  LET followups == t.payload.followups.val
      sent == [channel |-> t.channel.val, payload |-> followups[t.next],
               reference |-> t.message, ok |-> ok,
               configured |-> configured_now(t)]
  IN IF t.next < Len(followups)
     THEN [t EXCEPT !.next = @ + 1, !.sent = Append(@, sent)]
     ELSE [t EXCEPT !.pc = "done", !.result = Ok, !.next = @ + 1,
                    !.sent = Append(@, sent)]

\* followup_turn resolving the destination again for every followup.
followup_turn_resolving_again(t, ok) ==
  LET followups == t.payload.followups.val
      sent == [channel |-> IF configured_now(t).some THEN configured_now(t).val
                           ELSE t.channel.val,
               payload |-> followups[t.next],
               reference |-> t.message, ok |-> ok,
               configured |-> configured_now(t)]
  IN IF ~ok
     THEN [t EXCEPT !.pc = "done", !.result = SendError, !.sent = Append(@, sent)]
     ELSE IF t.next < Len(followups)
     THEN [t EXCEPT !.next = @ + 1, !.sent = Append(@, sent)]
     ELSE [t EXCEPT !.pc = "done", !.result = Ok, !.next = @ + 1,
                    !.sent = Append(@, sent)]

\* One turn of `for followup in followups.into_iter()`: the followup is sent
\* with reference_message(&message); a rejected send returns the error.
followup_turn(t, ok) ==
  LET followups == t.payload.followups.val
      sent == [channel |-> t.channel.val, payload |-> followups[t.next],
               reference |-> t.message, ok |-> ok,
               configured |-> configured_now(t)]
  IN IF ~ok
     THEN [t EXCEPT !.pc = "done", !.result = SendError, !.sent = Append(@, sent)]
     ELSE IF t.next < Len(followups)
     THEN [t EXCEPT !.next = @ + 1, !.sent = Append(@, sent)]
     ELSE [t EXCEPT !.pc = "done", !.result = Ok, !.next = @ + 1,
                    !.sent = Append(@, sent)]

handle_send_followup(ok) ==
  /\ task.pc = "send_followups"
  /\ task' = followup_turn(task, ok)
  /\ UNCHANGED <<pool, reply, list_pending, n_commands, n_inserted, calc>>

\* The invocation has returned; the gateway hands over the next event.
handle_return ==
  /\ task.pc = "done"
  /\ task' = IdleTask
  /\ UNCHANGED <<pool, reply, list_pending, n_commands, n_inserted, calc>>

\* ------------------------------------------------------------------ specifications
\* Events of Spec: one of each shape the router treats differently.
CoreEvents ==
  {[kind |-> "MessageDelete", guild_id |-> Some(g),
    message |-> Some([author_bot |-> FALSE, content |-> "hello", attachments |-> a])]
     : g \in Guilds, a \in {<<>>}}
  \cup
  {[kind |-> "MessageDelete", guild_id |-> Some(g),
    message |-> Some([author_bot |-> FALSE, content |-> "hello", attachments |-> a])]
     : g \in {1}, a \in {<<"u1">>}}
  \cup
  {[kind |-> "MessageUpdate",
    old_if_available |-> Some([author_bot |-> FALSE, guild_id |-> Some(g),
                               content |-> "hello", attachments |-> a]),
    new |-> Some([content |-> "hello", attachments |-> b])]
     : g \in {1}, a \in {<<"u1">>}, b \in {<<>>, <<"u2">>}}
  \cup
  {[kind |-> "GuildMemberAddition",
    new_member |-> [guild_id |-> g, joined_at |-> Some("t0")]]
     : g \in {2}}
  \cup
  {[kind |-> "GuildMemberRemoval", guild_id |-> 1, user |-> "user",
    member_data_if_available |-> m]
     : m \in {None, Some([joined_at |-> Some("t0")])}}

Init ==
  /\ pool = {}
  /\ reply = NoReply
  /\ list_pending = [g \in Guilds |-> 0]
  /\ n_commands = 0
  /\ n_inserted = [g \in Guilds |-> 0]
  /\ task = IdleTask
  /\ calc = NoCalc

\* The URLs make_embed may fetch for an event: those of its attachments.
attachment_urls(event) ==
  CASE event.kind = "MessageDelete" /\ event.message.some ->
         collect(event.message.val.attachments)
    [] event.kind = "MessageUpdate" ->
         (IF event.old_if_available.some
          THEN collect(event.old_if_available.val.attachments) ELSE {})
           \cup (IF event.new.some THEN collect(event.new.val.attachments) ELSE {})
    [] OTHER -> {}

\* `down` are the URLs whose fetch fails, `order` is the iteration order of
\* the HashSets, `ids` the identifiers the platform may give a sent message.
Pipeline(events, ids) ==
  \/ /\ task.pc = "idle"
     /\ \E event \in events :
          \E down \in SUBSET attachment_urls(event), order \in Perms(Urls) :
            handle_make_embed(event, down, order)
  \/ \E io_ok \in BOOLEAN : handle_fetch_channel(io_ok)
  \/ \E ok \in BOOLEAN, id \in ids : handle_send_primary(ok, id)
  \/ \E ok \in BOOLEAN : handle_send_followup(ok)
  \/ handle_return

Next ==
  \/ \E guild \in Guilds, log_type \in LogTypes, channel \in Opt(Channels),
        io_ok \in BOOLEAN :
       set(guild, log_type, channel, io_ok)
  \/ \E guild \in Guilds, io_ok \in BOOLEAN : list_select(guild, io_ok)
  \/ \E guild \in Guilds, io_ok \in BOOLEAN : list_insert(guild, io_ok)
  \/ Pipeline(CoreEvents, {100})

Spec == Init /\ [][Next]_vars

\* The pipeline alone, over every event of the bounded domain, started from
\* tables that `list` and `set` can have produced.
Row(guild, member, chat, server) ==
  [guild_id |-> to_string(guild), member_logs |-> member, chat_logs |-> chat,
   server_logs |-> server]

PoolSamples ==
  { {},
    {Row(1, None, None, None), Row(2, None, Some("42"), None)},
    {Row(1, Some("42"), Some("7"), None)},
    {Row(1, None, Some("7"), None), Row(2, Some("7"), Some("42"), Some("7"))} }

InitPipeline ==
  /\ pool \in PoolSamples
  /\ reply = NoReply
  /\ list_pending = [g \in Guilds |-> 0]
  /\ n_commands = 0
  /\ n_inserted = [g \in Guilds |-> 0]
  /\ task = IdleTask
  /\ calc = NoCalc

NextPipeline == Pipeline(Events, MessageIds)

SpecPipeline == InitPipeline /\ [][NextPipeline]_vars

\* The pure helpers of logging.rs on their own: a call with arguments of the
\* bounded domain, then its evaluation.
DiffItems == {"u1", "u2", "u3"}

DiffSeqs == UNION {[1..k -> DiffItems] : k \in 0..MaxDiffLen}

AsymmetricDiffCalls ==
  {[fn |-> "asymmetric_diff", from |-> from, to |-> to, value |-> None]
     : from \in DiffSeqs, to \in DiffSeqs}

PluralizeCalls ==
  {[fn |-> "pluralize", singular |-> "attachment", plural |-> "attachments",
    count |-> count, value |-> None]
     : count \in 0..MaxCount}

InitPure ==
  /\ pool = {}
  /\ reply = NoReply
  /\ list_pending = [g \in Guilds |-> 0]
  /\ n_commands = 0
  /\ n_inserted = [g \in Guilds |-> 0]
  /\ task = IdleTask
  /\ \/ calc \in AsymmetricDiffCalls
     \/ calc \in PluralizeCalls

call_asymmetric_diff ==
  /\ calc.fn = "asymmetric_diff"
  /\ ~calc.value.some
  /\ calc' = [calc EXCEPT !.value = Some(asymmetric_diff(calc.from, calc.to))]
  /\ UNCHANGED <<pool, reply, list_pending, n_commands, n_inserted, task>>

call_pluralize ==
  /\ calc.fn = "pluralize"
  /\ ~calc.value.some
  /\ calc' = [calc EXCEPT
                !.value = Some(pluralize(calc.singular, calc.plural, calc.count))]
  /\ UNCHANGED <<pool, reply, list_pending, n_commands, n_inserted, task>>

NextPure == call_asymmetric_diff \/ call_pluralize

SpecPure == InitPure /\ [][NextPure]_vars


\* ------------------------------------------------------------------ properties
\* The invocation has looked its destination up.
LookedUp == task.lookup.done

\* The last command to complete before the lookup was `set` of this
\* invocation's guild and category.
SetBeforeLookup ==
  /\ LookedUp
  /\ task.lookup.reply.cmd = "set"
  /\ task.lookup.reply.guild_id = task.payload.guild_id
  /\ task.lookup.reply.log_type = task.payload.log_type

\* C1: once `channels set` of Chat to channel c has completed for guild g, a
\* Chat event of g that is classified next resolves, and sends its primary
\* message, to c.
C1_SetThenChatEventGoesToChannel ==
  (SetBeforeLookup /\ task.payload.log_type = "Chat"
     /\ task.lookup.reply.channel.some)
    => /\ task.channel = task.lookup.reply.channel
       /\ \A i \in 1..Len(task.sent) :
            task.sent[i].channel = task.lookup.reply.channel.val

\* C2: when the table has no row for the guild, or the row's column for the
\* category is NULL, at the time of the lookup, the invocation ends with
\* NoLogChannelSet carrying that category and guild, and has sent nothing.
C2_UnsetDestinationIsNoLogChannelSet ==
  (LookedUp /\ task.lookup.column \in {"norow", "null"})
    => /\ task.pc = "done"
       /\ task.result = NoLogChannelSet(task.payload.log_type, task.payload.guild_id)
       /\ task.channel = None
       /\ task.sent = <<>>

\* C2 witness: a Chat event failed with NoLogChannelSet on a row whose column
\* the preceding `set` without a channel had just unset.
C2_Witness ==
  /\ SetBeforeLookup
  /\ ~task.lookup.reply.channel.some
  /\ task.lookup.column = "null"
  /\ task.result.tag = "Err"
  /\ task.result.error = "NoLogChannelSet"

\* C3: after `set(category, channel_or_none)` has completed for guild g, the
\* table has a row for g whose column for the category holds the given value.
C3_SetIsUpsert ==
  reply.cmd = "set"
    => \E r \in pool :
         /\ r.guild_id = ToString(reply.guild_id)
         /\ r[as_column_name(reply.log_type)] =
              (IF reply.channel.some THEN Some(ToString(reply.channel.val))
               ELSE None)

\* C4: the first send of a delivery is the primary message; every later send
\* happens after the primary was accepted, goes to the primary's channel,
\* references the primary's identifier, and the k-th of them carries the k-th
\* followup of the draft.
C4_PrimaryThenFollowupsInOrder ==
  \A i \in 1..Len(task.sent) :
    IF i = 1
    THEN /\ task.sent[1].payload = task.payload.message
         /\ task.sent[1].reference = None
         /\ task.sent[1].channel = task.channel.val
    ELSE /\ task.sent[1].ok
         /\ task.message.some
         /\ task.sent[i].reference = task.message
         /\ task.sent[i].channel = task.sent[1].channel
         /\ task.payload.followups.some
         /\ i - 1 <= Len(task.payload.followups.val)
         /\ task.sent[i].payload = task.payload.followups.val[i - 1]

\* C4 witness: a primary and two followups (Added, Removed) have been sent.
C4_Witness ==
  /\ Len(task.sent) = 3
  /\ \A i \in 1..3 : task.sent[i].ok
  /\ task.payload.followups.val[1] # task.payload.followups.val[2]
  /\ task.result = Ok

\* C5: a rejected send is the last send of its delivery and the invocation
\* returns the send error at once; no payload is sent a second time.
C5_RejectedSendEndsDelivery ==
  /\ \A i \in 1..Len(task.sent) :
       ~task.sent[i].ok
         => /\ i = Len(task.sent)
            /\ task.pc = "done"
            /\ task.result = SendError
  /\ task.payload.tag = "Some"
       => Len(task.sent) <=
            1 + (IF task.payload.followups.some
                 THEN Len(task.payload.followups.val) ELSE 0)
  /\ task.result = Ok /\ task.payload.tag = "Some"
       => \A i \in 1..Len(task.sent) : task.sent[i].ok

\* C5 witness: the first of two followups was rejected and the second was
\* never sent.
C5_Witness ==
  /\ task.pc = "done"
  /\ Len(task.sent) = 2
  /\ ~task.sent[2].ok
  /\ Len(task.payload.followups.val) = 2
  /\ task.result = SendError

\* The old and new snapshots of the edit being handled.
EditOld == task.event.old_if_available.val
EditNew == task.event.new.val
IsEdit ==
  /\ task.event.kind = "MessageUpdate"
  /\ task.event.old_if_available.some
  /\ task.event.new.some
EditAdded == collect(EditNew.attachments) \ collect(EditOld.attachments)
EditRemoved == collect(EditOld.attachments) \ collect(EditNew.attachments)

\* C6: an edit whose content is unchanged and whose old and new attachment
\* urls are the same set produces no draft, and nothing is sent.
C6_UnchangedEditIsSuppressed ==
  (IsEdit /\ EditOld.content = EditNew.content
     /\ collect(EditOld.attachments) = collect(EditNew.attachments))
    => /\ task.payload.tag = "None"
       /\ task.sent = <<>>

FieldNames(message) == {message.fields[i].name : i \in 1..Len(message.fields)}

\* The followups of an edit's draft are: one "Added" followup iff urls were
\* added, then one "Removed" followup iff urls were removed.
EditFollowupsMatchDiff ==
  LET fs == task.payload.followups.val
      na == IF EditAdded # {} THEN 1 ELSE 0
      nr == IF EditRemoved # {} THEN 1 ELSE 0
  IN /\ task.payload.followups.some
     /\ Len(fs) = na + nr
     /\ EditAdded # {}
          => /\ fs[1].content \in {"Added attachment:", "Added attachments:"}
             /\ collect(fs[1].files) = EditAdded
             /\ Len(fs[1].files) = Cardinality(EditAdded)
     /\ EditRemoved # {}
          => /\ fs[na + 1].content \in {"Removed attachment:", "Removed attachments:"}
             /\ collect(fs[na + 1].files) = EditRemoved
             /\ Len(fs[na + 1].files) = Cardinality(EditRemoved)

\* An edit that changes the content and no attachment: old/new content fields
\* and no followup.
EditContentOnly ==
  (EditOld.content # EditNew.content /\ EditAdded = {} /\ EditRemoved = {})
    => /\ {"New", "Previous"} \subseteq FieldNames(task.payload.message)
       /\ task.payload.followups = Some(<<>>)

\* An edit with the same content and one new url: no content fields and one
\* followup with the given text.
EditOneAdded(text) ==
  (EditOld.content = EditNew.content /\ Cardinality(EditAdded) = 1
     /\ EditRemoved = {})
    => /\ FieldNames(task.payload.message) \cap {"New", "Previous"} = {}
       /\ Len(task.payload.followups.val) = 1
       /\ task.payload.followups.val[1].content = text

\* C7 as stated: for an edit that yields a draft, the followups are one
\* "Added" iff urls were added and one "Removed" iff urls were removed, in that
\* order; a content-only edit has old/new content fields and no followup; the
\* same content with one new url has no content fields and the one followup
\* "Added 1 attachment:".
C7_EditFollowups_AsStated ==
  (IsEdit /\ task.payload.tag = "Some")
    => /\ EditFollowupsMatchDiff
       /\ EditContentOnly
       /\ EditOneAdded("Added 1 attachment:")

\* C7 amended: as stated, except that the one followup reads
\* "Added attachment:" (the text carries no count).
C7_EditFollowups ==
  (IsEdit /\ task.payload.tag = "Some")
    => /\ EditFollowupsMatchDiff
       /\ EditContentOnly
       /\ EditOneAdded("Added attachment:")

\* C7 witness: an edit with the same content and one new url was delivered as
\* a primary and one followup.
C7_Witness ==
  /\ IsEdit
  /\ task.payload.tag = "Some"
  /\ EditOld.content = EditNew.content
  /\ Cardinality(EditAdded) = 1
  /\ EditRemoved = {}
  /\ Len(task.sent) = 2
  /\ task.result = Ok

\* C8: an invocation in which the fetch of an attachment failed ends with an
\* error result, neither with Ok(()) nor with a panic.
C8_FetchFailureIsReturned ==
  task.payload.fetch_failed
    => /\ task.result.tag = "Err"
       /\ task.sent = <<>>

\* C9: a deletion whose cached author is a bot, or whose message is not
\* cached, yields no draft, sends nothing and returns Ok(()).
C9_BotOrUncachedDeleteIsSuppressed ==
  (/\ task.event.kind = "MessageDelete"
   /\ \/ ~task.event.message.some
      \/ task.event.message.val.author_bot)
    => /\ task.payload.tag = "None"
       /\ task.pc = "done"
       /\ task.result = Ok
       /\ task.sent = <<>>

\* C9 witness: the deletion of a bot's message with content and attachments,
\* one of them not fetchable, in a guild with a Chat destination, was handled.
C9_Witness ==
  /\ task.event.kind = "MessageDelete"
  /\ task.event.guild_id.some
  /\ task.event.message.some
  /\ task.event.message.val.author_bot
  /\ task.event.message.val.content = "hello"
  /\ Len(task.event.message.val.attachments) = 2
  /\ column_state(pool, "Chat", task.event.guild_id.val) = "set"
  /\ task.pc = "done"

\* The deletion of a cached, human-authored message in a guild whose Chat
\* column holds channel c has been handled to the end.
HumanDeleteDone(c) ==
  /\ task.event.kind = "MessageDelete"
  /\ task.pc = "done"
  /\ task.event.guild_id.some
  /\ task.event.message.some
  /\ ~task.event.message.val.author_bot
  /\ \E r \in pool :
       /\ r.guild_id = ToString(task.event.guild_id.val)
       /\ r.chat_logs = Some(ToString(c))

\* One primary to c with the content (or "None"), and one followup with all
\* the attachments iff there are any.
DeleteDelivered(c) ==
  LET message == task.event.message.val
      shown == IF message.content = "" THEN "None" ELSE message.content
      n == Len(message.attachments)
  IN /\ task.payload.tag = "Some"
     /\ task.payload.log_type = "Chat"
     /\ Len(task.sent) = (IF n >= 1 THEN 2 ELSE 1)
     /\ \A i \in 1..Len(task.sent) : task.sent[i].ok /\ task.sent[i].channel = c
     /\ task.sent[1].reference = None
     /\ \E i \in 1..Len(task.sent[1].payload.fields) :
          task.sent[1].payload.fields[i] = [name |-> "Content", value |-> shown]
     /\ n >= 1 => task.sent[2].payload.files = message.attachments

JoinDraftIsMember ==
  /\ task.payload.tag = "Some"
  /\ task.payload.log_type = "Member"
  /\ task.payload.guild_id = task.event.new_member.guild_id
  /\ task.payload.followups = None
  /\ Len(task.sent) <= 1

\* C11: every member-joined event, whatever the member's fields, yields one
\* Member draft for the member's guild with no followups.
C11_JoinNeverSuppressed ==
  task.event.kind = "GuildMemberAddition" => JoinDraftIsMember

\* C12: a member-left event without a cached member snapshot yields no draft:
\* no lookup, no send, and the invocation returns Ok(()); a snapshot with its
\* join time yields a draft, and every draft of a member-left event is a
\* Member draft of the event's guild.
C12_LeaveWithoutSnapshotIsSuppressed ==
  task.event.kind = "GuildMemberRemoval"
    => /\ ~task.event.member_data_if_available.some
            => /\ task.payload.tag = "None"
               /\ task.pc = "done"
               /\ ~task.lookup.done
               /\ task.sent = <<>>
               /\ task.result = Ok
       /\ (/\ task.event.member_data_if_available.some
           /\ task.event.member_data_if_available.val.joined_at.some)
            => task.payload.tag = "Some"
       /\ task.payload.tag = "Some"
            => /\ task.payload.log_type = "Member"
               /\ task.payload.guild_id = task.event.guild_id
               /\ \A i \in 1..Len(task.sent) :
                    Some(ToString(task.sent[i].channel)) \in
                      {r.member_logs : r \in {q \in pool :
                         q.guild_id = ToString(task.event.guild_id)}}

\* C12 witness: a member left a guild whose Member channel is set, with no
\* cached snapshot, and the invocation has returned.
C12_Witness ==
  /\ task.event.kind = "GuildMemberRemoval"
  /\ ~task.event.member_data_if_available.some
  /\ task.pc = "done"
  /\ column_state(pool, "Member", task.event.guild_id) = "set"


\* The call of asymmetric_diff has been evaluated.
DiffCalled == calc.fn = "asymmetric_diff" /\ calc.value.some

\* C14: the added and removed sets of diff(A, B) are disjoint, diff(A, A) is
\* the pair of empty sets, and the removed set of diff(A, B) is the added set
\* of diff(B, A); empty sequences and duplicates included.
C14_DiffAlgebra ==
  DiffCalled
    => /\ calc.value.val.added \cap calc.value.val.removed = {}
       /\ calc.from = calc.to
            => calc.value.val = [removed |-> {}, added |-> {}]
       /\ calc.value.val.removed = asymmetric_diff(calc.to, calc.from).added
       /\ calc.value.val.added = asymmetric_diff(calc.to, calc.from).removed

\* C14 witness: diff(A, A) of a sequence with a duplicate has been evaluated.
C14_Witness ==
  /\ DiffCalled
  /\ calc.from = calc.to
  /\ Len(calc.from) = 2
  /\ calc.from[1] = calc.from[2]

\* C15: pluralize returns the singular form exactly when count = 1 and the
\* plural form for every other count, 0 and 2 included.
C15_PluralizeSingularIffOne ==
  (calc.fn = "pluralize" /\ calc.value.some)
    => /\ (calc.value.val = calc.singular) <=> (calc.count = 1)
       /\ (calc.value.val = calc.plural) <=> (calc.count # 1)

\* C15 witness: pluralize has been evaluated for count 0.
C15_Witness ==
  /\ calc.fn = "pluralize"
  /\ calc.value.some
  /\ calc.count = 0

\* The elements of a sequence.
Elements(items) == {x \in DiffItems : \E i \in DOMAIN items : items[i] = x}

\* C16: diff(before, after) is removed = set(before) \ set(after) and
\* added = set(after) \ set(before); inputs with the same elements, permuted
\* or duplicated, give the same result; for disjoint inputs added = set(after)
\* and removed = set(before).
C16_DiffIsSetDifference ==
  DiffCalled
    => /\ calc.value.val.removed = Elements(calc.from) \ Elements(calc.to)
       /\ calc.value.val.added = Elements(calc.to) \ Elements(calc.from)
       /\ \A from \in DiffSeqs, to \in DiffSeqs :
            (Elements(from) = Elements(calc.from) /\ Elements(to) = Elements(calc.to))
              => asymmetric_diff(from, to) = calc.value.val
       /\ Elements(calc.from) \cap Elements(calc.to) = {}
            => /\ calc.value.val.added = Elements(calc.to)
               /\ calc.value.val.removed = Elements(calc.from)

\* C16 witness: diff of two disjoint nonempty inputs, one with a duplicate,
\* has been evaluated.
C16_Witness ==
  /\ DiffCalled
  /\ calc.from = <<"u1", "u1">>
  /\ calc.to = <<"u3", "u2">>


\* The rows of a guild, and what a table holds for (guild, log_type): None
\* without a row or with a NULL column.
RowsOf(table, guild) == {r \in table : r.guild_id = ToString(guild)}

AtMostOneRow(table) == \A g \in Guilds : Cardinality(RowsOf(table, g)) <= 1

ColumnValue(table, guild, log_type) ==
  IF \E r \in RowsOf(table, guild) : r[as_column_name(log_type)].some
  THEN (CHOOSE r \in RowsOf(table, guild) : r[as_column_name(log_type)].some)
         [as_column_name(log_type)]
  ELSE None

DefaultRow(guild) ==
  [guild_id |-> ToString(guild), member_logs |-> None, chat_logs |-> None,
   server_logs |-> None]

\* The step is a `set` that the store carried out; its arguments are those
\* of the reply it sends.
SetDone ==
  /\ n_commands' # n_commands
  /\ reply'.cmd = "set"
  /\ set(reply'.guild_id, reply'.log_type, reply'.channel, TRUE)

SetValue == IF reply'.channel.some THEN Some(ToString(reply'.channel.val)) ELSE None

\* The step is the lazy row creation of a `list` of guild g.
ListInsertDone(g) ==
  /\ list_pending'[g] < list_pending[g]
  /\ \E io_ok \in BOOLEAN : list_insert(g, io_ok)

\* C13: a guild never has more than one row; an execution of the lazy row
\* creation of `list` leaves exactly one row for its guild, the row that was
\* there or else a row with every field unset; and a field gets a value only
\* by a `set` of that guild and category, so a field never set is unset.
C13_LazyRowCreationIdempotent ==
  [][/\ AtMostOneRow(pool')
     /\ \A g \in Guilds :
          (n_inserted'[g] # n_inserted[g] /\ ListInsertDone(g))
            => /\ Cardinality(RowsOf(pool', g)) = 1
               /\ RowsOf(pool', g) =
                    (IF RowsOf(pool, g) = {} THEN {DefaultRow(g)}
                     ELSE RowsOf(pool, g))
     /\ \A g \in Guilds, log_type \in LogTypes :
          (/\ pool' # pool
           /\ ColumnValue(pool', g, log_type).some
           /\ ~ColumnValue(pool, g, log_type).some)
            => /\ SetDone
               /\ reply'.guild_id = g
               /\ reply'.log_type = log_type
    ]_vars

\* C13 witness: the lazy row creation has run twice for one guild, which has
\* one row.
C13_Witness ==
  \E g \in Guilds :
    /\ n_inserted[g] >= 2
    /\ Cardinality(RowsOf(pool, g)) = 1

\* C17: under every interleaving of `list`, `set` and deliveries a guild has
\* at most one row; a field changes only by a `set` of that guild and
\* category, to the value of that `set` (the last write wins); the lazy row
\* creation leaves every row as it is; a delivery leaves the table as it is.
C17_ConfigNeverCorrupted ==
  [][/\ AtMostOneRow(pool')
     /\ \A g \in Guilds, log_type \in LogTypes :
          (/\ pool' # pool
           /\ ColumnValue(pool', g, log_type) # ColumnValue(pool, g, log_type))
            => /\ SetDone
               /\ reply'.guild_id = g
               /\ reply'.log_type = log_type
     /\ (SetDone /\ RowsOf(pool, reply'.guild_id) # {})
          => ColumnValue(pool', reply'.guild_id, reply'.log_type) = SetValue
     /\ \A g \in Guilds : ListInsertDone(g) => \A r \in pool : r \in pool'
     /\ task' # task => pool' = pool
    ]_vars

\* C17 witness: a lazy row creation ran after a `set` had written the Chat
\* field of its guild: the `list` reply shows no Chat channel, the row has one.
C17_Witness ==
  /\ reply.cmd = "list"
  /\ reply.chat_logs = "None"
  /\ n_inserted[reply.guild_id] >= 2
  /\ ColumnValue(pool, reply.guild_id, "Chat").some

\* C18: `set` of guild g and a category leaves g's other two fields and every
\* other guild's row as they are and adds no row; a `set` that the store
\* fails changes nothing; no step removes a row.
C18_SetChangesOneField ==
  [][/\ pool' # pool => \A r \in pool : \E q \in pool' : q.guild_id = r.guild_id
     /\ SetDone
          => /\ \A other \in LogTypes \ {reply'.log_type} :
                  ColumnValue(pool', reply'.guild_id, other) =
                    ColumnValue(pool, reply'.guild_id, other)
             /\ \A h \in Guilds \ {reply'.guild_id} :
                  RowsOf(pool', h) = RowsOf(pool, h)
             /\ Cardinality(pool') = Cardinality(pool)
     /\ (n_commands' # n_commands /\ reply'.cmd = "error") => pool' = pool
    ]_vars

\* C18 witness: a `set` has written the Chat field of a guild while the other
\* guild has a row too.
C18_Witness ==
  /\ reply.cmd = "set"
  /\ reply.log_type = "Chat"
  /\ reply.channel.some
  /\ ColumnValue(pool, reply.guild_id, "Chat") = Some(ToString(reply.channel.val))
  /\ \A g \in Guilds : RowsOf(pool, g) # {}

\* C19: a failure of the store never panics the task that meets it: `list`
\* and `set` return it as the command's error, and a delivery whose
\* destination lookup meets it returns an error.
C19_StoreFailureNeverPanics ==
  /\ reply.cmd # "panic"
  /\ (task.lookup.done /\ ~task.lookup.io_ok) => task.result.tag = "Err"

\* C20: every message of an invocation, the primary and each followup, goes
\* to the channel its one lookup resolved, and none is sent before the
\* lookup, whatever the table names by the time of the send.
C20_OneDestinationPerInvocation ==
  /\ task.sent # <<>> => (task.lookup.done /\ task.channel.some)
  /\ \A i \in 1..Len(task.sent) : task.sent[i].channel = task.channel.val
  /\ (task.lookup.done /\ task.lookup.column # "set") => ~task.channel.some

\* C20 witness: a followup was sent, and accepted, after a `set` had given
\* the invocation's guild and category another destination, or none.
C20_Witness ==
  \E i \in 2..Len(task.sent) :
    /\ task.sent[i].ok
    /\ task.sent[i].configured # Some(task.sent[i].channel)


\* C21: no draft is a Server draft: a draft of a deleted or edited message is
\* Chat, a draft of a joined or left member is Member, a member update and
\* every other event yield no draft and no message; so every message sent
\* went to the Chat or Member channel of its guild, none to a channel by
\* virtue of the guild's Server column.
C21_NoServerDraft ==
  /\ task.payload.tag = "Some"
       => /\ task.payload.log_type \in {"Chat", "Member"}
          /\ task.payload.log_type = "Chat"
               <=> task.event.kind \in {"MessageDelete", "MessageUpdate"}
          /\ task.payload.log_type = "Member"
               <=> task.event.kind \in {"GuildMemberAddition", "GuildMemberRemoval"}
  /\ (task.pc # "idle"
        /\ task.event.kind \notin {"MessageDelete", "MessageUpdate",
                                   "GuildMemberAddition", "GuildMemberRemoval"})
       => /\ task.payload.tag = "None"
          /\ task.pc = "done"
          /\ task.result = Ok
          /\ ~task.lookup.done
          /\ task.sent = <<>>
  /\ \A i \in 1..Len(task.sent) :
       /\ task.payload.log_type # "Server"
       /\ \E r \in pool :
            /\ r.guild_id = ToString(task.payload.guild_id)
            /\ r[as_column_name(task.payload.log_type)] =
                 Some(ToString(task.sent[i].channel))

\* C21 witness: a member update was handled, without a draft, while a guild
\* has its Server channel set.
C21_Witness ==
  /\ task.event.kind = "GuildMemberUpdate"
  /\ task.event.old_if_available.some
  /\ task.pc = "done"
  /\ \E r \in pool : r.server_logs.some

====
